---------------------------- MODULE Spec2Model ----------------------------
(***************************************************************************)
(* Model of the Nano / Muses72323 pre-amplifier controller                 *)
(* (src/src/main.cpp).                                                     *)
(*                                                                         *)
(* The control cycle loop() calls RC5Update() and RotaryUpdate() in turn.  *)
(* The analog-comparator interrupt ISR(ANALOG_COMP_vect) may preempt it    *)
(* between any two statements.  The model therefore executes a handler one *)
(* statement at a time: pc is the sequence of statements still to run in   *)
(* the handler in progress (empty between handlers), and the interrupt is  *)
(* one atomic action enabled at every pc once setup() has enabled it.      *)
(*                                                                         *)
(* A step of the model is one statement, or a run of statements of which   *)
(* at most one touches a variable the interrupt also touches (the          *)
(* interrupt writes backlight, isMuted, state, the MUSES chip, the LCD and *)
(* the EEPROM; it reads volume and source).  Statements on locals and on   *)
(* variables the interrupt never touches commute with the interrupt, so    *)
(* grouping them loses no interleaving.  The same holds for the two-byte   *)
(* store to volume: the interrupt keeps only the low byte of -volume, and  *)
(* that byte depends on the low byte of volume alone, so a torn read gives *)
(* the interrupt nothing that the value before or after the store would    *)
(* not.                                                                    *)
(*                                                                         *)
(* Of the LCD only row 1 (the mute indicator) is modelled.                 *)
(***************************************************************************)
EXTENDS Integers, Sequences, FiniteSets, TLC

(* ---------------- program constants ---------------- *)
STATE_RUN == 0
STATE_IO == 1
STATE_OFF == 4
STANDBY == 0
ACTIVE == 1
LOW == 0
HIGH == 1
EEPROM_FIRST_USE == 0
EEPROM_VOLUME == 1
EEPROM_SOURCE == 2
EEPROM_BALANCE == 3
TIME_EXITSELECT == 5
VolMin == -447
VolMax == 0
DIR_NONE == 0
DIR_CW == 16
DIR_CCW == 32
AddrPreamp == 16
AddrCD == 20
ErasedByte == 255
ByteRange == 256

(* ---------------- bounds of the model ---------------- *)
\* knob / remote "up" requests are offered while volume is below VolMin + MaxVolSteps
MaxVolSteps == 1
\* input events the control cycle still processes after the power-loss interrupt
MaxPostLossEvents == 1
\* input events in a behaviour of SpecReboot
MaxEvents == 2
\* power cycles in a behaviour of SpecReboot
MaxBoots == 2

VARIABLES
    volume,       \* signed int volume (line 54)
    backlight,    \* unsigned char backlight (line 55)
    source,       \* unsigned char source (line 57)
    oldsource,    \* unsigned char oldsource (line 58)
    oldtoggle,    \* unsigned char oldtoggle (line 59)
    isMuted,      \* unsigned char isMuted (line 60)
    state,        \* unsigned char state (line 61)
    sinceButton,  \* millis() - milOnButton, in ms (lines 48, 145)
    eeprom,       \* the four EEPROM slots (lines 38-41)
    pins,         \* level of output pins 1..4, the source lines (lines 130-131)
    muses,        \* last command the MUSES72323 received (lines 193, 411)
    lcdRow1,      \* LCD row 1, the mute indicator (lines 404-405, 412-413)
    acie,         \* analog comparator interrupt enabled (line 467)
    pc,           \* statements left to run in the handler in progress
    cur,          \* the input event being handled and the state it found
    powerLost,    \* the power-loss interrupt has run in this power cycle
    isrVolume,    \* volume when the interrupt last ran
    isrSource,    \* source when the interrupt last ran
    afterBoot,    \* setup() has returned and no input event was handled since
    boots,        \* power cycles so far
    beforeToggle, \* the state the last toggleMute() started from, while
                  \* nothing else has been handled since
    budget        \* metered input events left

vars == <<volume, backlight, source, oldsource, oldtoggle, isMuted, state,
          sinceButton, eeprom, pins, muses, lcdRow1, acie, pc, cur,
          powerLost, isrVolume, isrSource, afterBoot, boots, beforeToggle,
          budget>>

core == <<volume, backlight, source, oldsource, oldtoggle, isMuted, state,
          sinceButton, eeprom, pins, muses, lcdRow1, acie>>

ghost == <<powerLost, isrVolume, isrSource, boots>>

(* ---------------- helpers ---------------- *)
Abs(x) == IF x < 0 THEN -x ELSE x

\* conversion of an int to the uint8_t parameter of EEPROM.update / EEPROM.write
ToByte(x) == x % ByteRange

Snapshot ==
    [volume |-> volume, source |-> source, isMuted |-> isMuted,
     backlight |-> backlight, state |-> state, powerLost |-> powerLost,
     oldtoggle |-> oldtoggle, lcdRow1 |-> lcdRow1, muses |-> muses,
     afterBoot |-> afterBoot]

NoEvent == [kind |-> "none", toggle |-> 0, address |-> 0, command |-> 0,
            dir |-> 0, pressed |-> FALSE]

\* cur between handlers
IdleCur ==
    [ev |-> NoEvent,
     pre |-> [volume |-> 0, source |-> 0, isMuted |-> 0, backlight |-> 0,
              state |-> 0, powerLost |-> FALSE, oldtoggle |-> 0,
              lcdRow1 |-> "", muses |-> [cmd |-> "", level |-> 0],
              afterBoot |-> FALSE]]

SetupEvent == [NoEvent EXCEPT !.kind = "setup"]

Rc5Event(t, a, c) ==
    [NoEvent EXCEPT !.kind = "rc5", !.toggle = t, !.address = a, !.command = c]

RotaryEvent(d, p) ==
    [NoEvent EXCEPT !.kind = "rotary", !.dir = d, !.pressed = p]

\* a decoded frame that makes RC5Update call toggleMute(): address 0x10,
\* command 13, toggle bit other than oldtoggle (lines 271, 327-331)
IsToggleMute(ev, old) ==
    /\ ev.kind = "rc5"
    /\ ev.address = AddrPreamp
    /\ ev.command = 13
    /\ ev.toggle # old

\* the handler in progress runs ops next, then what pc already held after
\* its head; cur is cleared and afterBoot set when the handler returns
Continue(ops) ==
    LET rest == ops \o Tail(pc) IN
    /\ pc' = rest
    /\ cur' = IF rest = <<>> THEN IdleCur ELSE cur
    /\ afterBoot' = IF rest = <<>> /\ cur.ev.kind = "setup" THEN TRUE ELSE afterBoot
    /\ beforeToggle' = IF rest = <<>> /\ IsToggleMute(cur.ev, cur.pre.oldtoggle)
                       THEN cur.pre
                       ELSE beforeToggle

At(label) == pc # <<>> /\ Head(pc) = label

Idle == pc = <<>>

\* an input event is taken from the idle control cycle
Begin(ev, ops, metered) ==
    /\ Idle
    /\ pc' = ops
    /\ cur' = [ev |-> ev, pre |-> Snapshot]
    /\ afterBoot' = FALSE
    /\ beforeToggle' = IF IsToggleMute(ev, oldtoggle) THEN beforeToggle ELSE IdleCur.pre
    /\ IF metered THEN budget > 0 /\ budget' = budget - 1 ELSE UNCHANGED budget

MuteOps == <<"m_flag", "m_dev", "m_lcd">>

UnMuteOps == <<"um_bl", "um_flag", "um_vol", "um_lcd">>

SetIOOps == <<"io_low", "io_high">>


(* ---------------- pure parts of the handlers ---------------- *)
\* volume = -447 (line 458)
BootVolume == -447

\* if (volume < 0) (lines 166, 340)
CanIncrease(v) == v < VolMax

\* CanDecrease with the floor itself let through
CanDecrease_Inclusive(v) == v >= VolMin

\* if (volume > -447) (lines 177, 352)
CanDecrease(v) == v > VolMin

\* NextSource with the wrap-around test off by one
NextSource_LateWrap(s) == IF s <= 4 THEN s + 1 ELSE 1

\* if (oldsource < 4) source++ else source = 1 (lines 232-239)
NextSource(s) == IF s < 4 THEN s + 1 ELSE 1

\* if (source > 1) source-- else source = 4 (lines 245-252)
PrevSource(s) == IF s > 1 THEN s - 1 ELSE 4

\* the source a remote command selects (lines 284, 297, 310, 323, 386)
SelTarget(a, c) ==
    IF a = AddrCD THEN 3
    ELSE CASE c = 1 -> 1
           [] c = 3 -> 4
           [] c = 7 -> 3
           [] OTHER -> 2

\* DisplayToggleOps without the calls of mute() and unMute()
DisplayToggleOps_BacklightOnly(bl) ==
    IF bl # STANDBY THEN <<"RC5Update_blOff">> ELSE <<"RC5Update_blOn">>

\* case 59 of RC5Update: the branch taken on backlight (lines 363-374)
DisplayToggleOps(bl) ==
    IF bl # STANDBY
    THEN <<"RC5Update_blOff">> \o MuteOps
    ELSE <<"RC5Update_blOn">> \o UnMuteOps

\* toggleMute (lines 416-426)
ToggleMuteOps(m) == IF m # 0 THEN UnMuteOps ELSE MuteOps

\* Rc5Ops taking every address other than that of the CD player for the
\* preamplifier's
Rc5Ops_AnyAddress(t, a, c) ==
    LET new == oldtoggle # t
        unmuteIfDark == IF backlight = STANDBY THEN UnMuteOps ELSE <<>>
        unmuteIfMuted == IF isMuted # 0 THEN UnMuteOps ELSE <<>>
    IN  IF a # AddrCD
        THEN CASE c \in {1, 3, 7, 8} ->
                    IF new THEN unmuteIfDark \o <<"RC5Update_select">> \o SetIOOps
                    ELSE <<>>
               [] c = 13 -> IF new THEN ToggleMuteOps(isMuted) ELSE <<>>
               [] c = 16 -> unmuteIfMuted \o <<"RC5Update_volUp">>
               [] c = 17 -> unmuteIfMuted \o <<"RC5Update_volDown">>
               [] c = 59 -> IF new THEN DisplayToggleOps(backlight) ELSE <<>>
               [] OTHER -> <<>>
        ELSE IF new /\ c = 53 THEN <<"RC5Update_select">> \o SetIOOps ELSE <<>>

\* the statements RC5Update runs for a decoded frame, up to the first test
\* of a variable the interrupt writes (lines 271-390)
Rc5Ops(t, a, c) ==
    LET new == oldtoggle # t
        unmuteIfDark == IF backlight = STANDBY THEN UnMuteOps ELSE <<>>
        unmuteIfMuted == IF isMuted # 0 THEN UnMuteOps ELSE <<>>
    IN  IF a = AddrPreamp
        THEN CASE c \in {1, 3, 7, 8} ->
                    IF new THEN unmuteIfDark \o <<"RC5Update_select">> \o SetIOOps
                    ELSE <<>>
               [] c = 13 -> IF new THEN ToggleMuteOps(isMuted) ELSE <<>>
               [] c = 16 -> unmuteIfMuted \o <<"RC5Update_volUp">>
               [] c = 17 -> unmuteIfMuted \o <<"RC5Update_volDown">>
               [] c = 59 -> IF new THEN DisplayToggleOps(backlight) ELSE <<>>
               [] OTHER -> <<>>
        ELSE IF a = AddrCD
        THEN IF new /\ c = 53 THEN <<"RC5Update_select">> \o SetIOOps ELSE <<>>
        ELSE <<>>

\* the statements RotaryUpdate runs for what the encoder reports, by state
\* (lines 138-152, 159-188, 209, 227-257)
RotaryOps(d, p) ==
    CASE state = STATE_RUN ->
            IF d = DIR_CW THEN <<"volumeUpdate_cw">>
            ELSE IF d = DIR_CCW THEN <<"volumeUpdate_ccw">>
            ELSE <<"buttonPressed_switch">>
      [] state = STATE_IO ->
            IF d = DIR_CW
            THEN <<"sourceUpdate_cw">> \o SetIOOps \o <<"RotaryUpdate_timeout">>
            ELSE IF d = DIR_CCW
            THEN <<"sourceUpdate_ccw">> \o SetIOOps \o <<"RotaryUpdate_timeout">>
            ELSE <<"RotaryUpdate_timeout">>
      [] OTHER -> <<"RotaryUpdate_default">>

(* ---------------- initial state ---------------- *)
\* the globals as their initialisers leave them (lines 48-66), a factory-fresh
\* EEPROM, the source lines not driven, the MUSES chip in its power-on mute
PowerOn(b) ==
    /\ volume = 0
    /\ backlight = 0
    /\ source = 1
    /\ oldsource = 1
    /\ oldtoggle = 0
    /\ isMuted = 0
    /\ state = 0
    /\ sinceButton = 0
    /\ eeprom = [a \in 0..3 |-> ErasedByte]
    /\ pins = [p \in 1..4 |-> LOW]
    /\ muses = [cmd |-> "mute", level |-> 0]
    /\ lcdRow1 = "      "
    /\ acie = FALSE
    /\ pc = <<"setup">>
    /\ cur = [ev |-> SetupEvent, pre |-> IdleCur.pre]
    /\ powerLost = FALSE
    /\ isrVolume = 0
    /\ isrSource = 0
    /\ afterBoot = FALSE
    /\ boots = 1
    /\ beforeToggle = IdleCur.pre
    /\ budget = b

Init == PowerOn(MaxPostLossEvents)

InitReboot == PowerOn(MaxEvents)

(* ---------------- setup() ---------------- *)
\* setup clearing the first-use flag without giving the source slot a value
setup_FlagOnly ==
    /\ At("setup")
    /\ pins' = [p \in 1..4 |-> LOW]
    /\ backlight' = 1
    /\ eeprom' = IF eeprom[EEPROM_FIRST_USE] # 0
                 THEN [eeprom EXCEPT ![EEPROM_FIRST_USE] = 0]
                 ELSE eeprom
    /\ volume' = BootVolume
    /\ source' = eeprom'[EEPROM_SOURCE]
    /\ acie' = TRUE
    /\ Continue(<<"setup_musesMute", "setup_isMuted", "setVolume">> \o SetIOOps)
    /\ UNCHANGED <<oldsource, oldtoggle, isMuted, state, sinceButton, muses,
                   lcdRow1, ghost, budget>>

\* lines 430-467, up to the enabling of the comparator interrupt
setup ==
    /\ At("setup")
    /\ pins' = [p \in 1..4 |-> LOW]
    /\ backlight' = 1
    /\ eeprom' = IF eeprom[EEPROM_FIRST_USE] # 0
                 THEN [eeprom EXCEPT ![EEPROM_SOURCE] = 1, ![EEPROM_FIRST_USE] = 0]
                 ELSE eeprom
    /\ volume' = BootVolume
    /\ source' = eeprom'[EEPROM_SOURCE]
    /\ acie' = TRUE
    /\ Continue(<<"setup_musesMute", "setup_isMuted", "setVolume">> \o SetIOOps)
    /\ UNCHANGED <<oldsource, oldtoggle, isMuted, state, sinceButton, muses,
                   lcdRow1, ghost, budget>>

\* Muses.begin() ... Muses.mute() (lines 470-473)
setup_musesMute ==
    /\ At("setup_musesMute")
    /\ muses' = [cmd |-> "mute", level |-> 0]
    /\ Continue(<<>>)
    /\ UNCHANGED <<volume, backlight, source, oldsource, oldtoggle, isMuted,
                   state, sinceButton, eeprom, pins, lcdRow1, acie, ghost, budget>>

\* isMuted = 0 (line 474)
setup_isMuted ==
    /\ At("setup_isMuted")
    /\ isMuted' = 0
    /\ Continue(<<>>)
    /\ UNCHANGED <<volume, backlight, source, oldsource, oldtoggle, state,
                   sinceButton, eeprom, pins, muses, lcdRow1, acie, ghost, budget>>

(* ---------------- setVolume(), setIO() ---------------- *)
\* lines 191-204
setVolume ==
    /\ At("setVolume")
    /\ muses' = [cmd |-> "gain", level |-> volume]
    /\ Continue(<<>>)
    /\ UNCHANGED <<volume, backlight, source, oldsource, oldtoggle, isMuted,
                   state, sinceButton, eeprom, pins, lcdRow1, acie, ghost, budget>>

\* setIO_low switching off the line of source instead of that of oldsource
setIO_low_WrongLine ==
    /\ At("io_low")
    /\ pins' = [pins EXCEPT ![source] = LOW]
    /\ Continue(<<>>)
    /\ UNCHANGED <<volume, backlight, source, oldsource, oldtoggle, isMuted,
                   state, sinceButton, eeprom, muses, lcdRow1, acie, ghost, budget>>

\* digitalWrite(oldsource, LOW) (line 130)
setIO_low ==
    /\ At("io_low")
    /\ pins' = [pins EXCEPT ![oldsource] = LOW]
    /\ Continue(<<>>)
    /\ UNCHANGED <<volume, backlight, source, oldsource, oldtoggle, isMuted,
                   state, sinceButton, eeprom, muses, lcdRow1, acie, ghost, budget>>

\* digitalWrite(source, HIGH) and the source name on the LCD (lines 131-133)
setIO_high ==
    /\ At("io_high")
    /\ pins' = [pins EXCEPT ![source] = HIGH]
    /\ Continue(<<>>)
    /\ UNCHANGED <<volume, backlight, source, oldsource, oldtoggle, isMuted,
                   state, sinceButton, eeprom, muses, lcdRow1, acie, ghost, budget>>

(* ---------------- unMute(), mute() ---------------- *)
\* if (!backlight) { backlight = ACTIVE; lcd.backlight(); } (lines 397-401)
unMute_backlight ==
    /\ At("um_bl")
    /\ backlight' = IF backlight = STANDBY THEN ACTIVE ELSE backlight
    /\ Continue(<<>>)
    /\ UNCHANGED <<volume, source, oldsource, oldtoggle, isMuted, state,
                   sinceButton, eeprom, pins, muses, lcdRow1, acie, ghost, budget>>

\* isMuted = 0 (line 402)
unMute_flag ==
    /\ At("um_flag")
    /\ isMuted' = 0
    /\ Continue(<<>>)
    /\ UNCHANGED <<volume, backlight, source, oldsource, oldtoggle, state,
                   sinceButton, eeprom, pins, muses, lcdRow1, acie, ghost, budget>>

\* setVolume() (line 403)
unMute_setVolume ==
    /\ At("um_vol")
    /\ muses' = [cmd |-> "gain", level |-> volume]
    /\ Continue(<<>>)
    /\ UNCHANGED <<volume, backlight, source, oldsource, oldtoggle, isMuted,
                   state, sinceButton, eeprom, pins, lcdRow1, acie, ghost, budget>>

\* unMute_lcd leaving the indicator on the display
unMute_lcd_NotCleared ==
    /\ At("um_lcd")
    /\ Continue(<<>>)
    /\ UNCHANGED <<core, ghost, budget>>

\* lcd.setCursor(0, 1); lcd.print("      ") (lines 404-405)
unMute_lcd ==
    /\ At("um_lcd")
    /\ lcdRow1' = "      "
    /\ Continue(<<>>)
    /\ UNCHANGED <<volume, backlight, source, oldsource, oldtoggle, isMuted,
                   state, sinceButton, eeprom, pins, muses, acie, ghost, budget>>

\* isMuted = 1 (line 410)
mute_flag ==
    /\ At("m_flag")
    /\ isMuted' = 1
    /\ Continue(<<>>)
    /\ UNCHANGED <<volume, backlight, source, oldsource, oldtoggle, state,
                   sinceButton, eeprom, pins, muses, lcdRow1, acie, ghost, budget>>

\* Muses.mute() (line 411)
mute_muses ==
    /\ At("m_dev")
    /\ muses' = [cmd |-> "mute", level |-> 0]
    /\ Continue(<<>>)
    /\ UNCHANGED <<volume, backlight, source, oldsource, oldtoggle, isMuted,
                   state, sinceButton, eeprom, pins, lcdRow1, acie, ghost, budget>>

\* lcd.setCursor(0, 1); lcd.print("Muted ") (lines 412-413)
mute_lcd ==
    /\ At("m_lcd")
    /\ lcdRow1' = "Muted "
    /\ Continue(<<>>)
    /\ UNCHANGED <<volume, backlight, source, oldsource, oldtoggle, isMuted,
                   state, sinceButton, eeprom, pins, muses, acie, ghost, budget>>


(* ---------------- RC5Update() ---------------- *)
\* rc5.read() returns a frame; dispatch on address and command (lines 269-390)
RC5Update(t, a, c, metered) ==
    /\ Begin(Rc5Event(t, a, c), Rc5Ops(t, a, c) \o <<"RC5Update_oldtoggle">>, metered)
    /\ UNCHANGED <<core, ghost>>

\* oldsource = source; source = n (lines 283-284, 296-297, 309-310, 322-323, 385-386)
RC5Update_select ==
    /\ At("RC5Update_select")
    /\ oldsource' = source
    /\ source' = SelTarget(cur.ev.address, cur.ev.command)
    /\ Continue(<<>>)
    /\ UNCHANGED <<volume, backlight, oldtoggle, isMuted, state, sinceButton,
                   eeprom, pins, muses, lcdRow1, acie, ghost, budget>>

\* RC5Update_volUp obeyed in STATE_RUN only
RC5Update_volUp_RunOnly ==
    /\ At("RC5Update_volUp")
    /\ IF CanIncrease(volume) /\ state = STATE_RUN
       THEN volume' = volume + 1 /\ Continue(<<"setVolume">>)
       ELSE volume' = volume /\ Continue(<<>>)
    /\ UNCHANGED <<backlight, source, oldsource, oldtoggle, isMuted, state,
                   sinceButton, eeprom, pins, muses, lcdRow1, acie, ghost, budget>>

\* if (volume < 0) { volume = volume + 1; setVolume(); } (lines 340-344)
RC5Update_volUp ==
    /\ At("RC5Update_volUp")
    /\ IF CanIncrease(volume)
       THEN volume' = volume + 1 /\ Continue(<<"setVolume">>)
       ELSE volume' = volume /\ Continue(<<>>)
    /\ UNCHANGED <<backlight, source, oldsource, oldtoggle, isMuted, state,
                   sinceButton, eeprom, pins, muses, lcdRow1, acie, ghost, budget>>

\* if (volume > -447) { volume = volume - 1; setVolume(); } (lines 352-356)
RC5Update_volDown ==
    /\ At("RC5Update_volDown")
    /\ IF CanDecrease(volume)
       THEN volume' = volume - 1 /\ Continue(<<"setVolume">>)
       ELSE volume' = volume /\ Continue(<<>>)
    /\ UNCHANGED <<backlight, source, oldsource, oldtoggle, isMuted, state,
                   sinceButton, eeprom, pins, muses, lcdRow1, acie, ghost, budget>>

\* backlight = STANDBY; lcd.noBacklight() (lines 365-366)
RC5Update_blOff ==
    /\ At("RC5Update_blOff")
    /\ backlight' = STANDBY
    /\ Continue(<<>>)
    /\ UNCHANGED <<volume, source, oldsource, oldtoggle, isMuted, state,
                   sinceButton, eeprom, pins, muses, lcdRow1, acie, ghost, budget>>

\* backlight = ACTIVE; lcd.backlight() (lines 371-372)
RC5Update_blOn ==
    /\ At("RC5Update_blOn")
    /\ backlight' = ACTIVE
    /\ Continue(<<>>)
    /\ UNCHANGED <<volume, source, oldsource, oldtoggle, isMuted, state,
                   sinceButton, eeprom, pins, muses, lcdRow1, acie, ghost, budget>>

\* oldtoggle = toggle (line 391)
RC5Update_oldtoggle ==
    /\ At("RC5Update_oldtoggle")
    /\ oldtoggle' = cur.ev.toggle
    /\ Continue(<<>>)
    /\ UNCHANGED <<volume, backlight, source, oldsource, isMuted, state,
                   sinceButton, eeprom, pins, muses, lcdRow1, acie, ghost, budget>>

(* ---------------- RotaryUpdate() ---------------- *)
\* switch (state), rotary.process() and rotary.buttonPressedReleased(20)
\* (lines 138, 159, 209, 227); a cycle in STATE_RUN in which the encoder
\* reports nothing runs no statement and is left out
RotaryUpdate(d, p, metered) ==
    /\ state = STATE_RUN => (d # DIR_NONE \/ p)
    /\ Begin(RotaryEvent(d, p), RotaryOps(d, p), metered /\ (d # DIR_NONE \/ p))
    /\ UNCHANGED <<core, ghost>>

\* case DIR_CW: if (volume < 0) { if (isMuted) unMute(); ... (lines 165-170)
volumeUpdate_cw ==
    /\ At("volumeUpdate_cw")
    /\ Continue(IF CanIncrease(volume)
                THEN (IF isMuted # 0 THEN UnMuteOps ELSE <<>>)
                     \o <<"volumeUpdate_inc", "setVolume">>
                ELSE <<>>)
    /\ UNCHANGED <<core, ghost, budget>>

\* volume = volume + 1 (line 172)
volumeUpdate_inc ==
    /\ At("volumeUpdate_inc")
    /\ volume' = volume + 1
    /\ Continue(<<>>)
    /\ UNCHANGED <<backlight, source, oldsource, oldtoggle, isMuted, state,
                   sinceButton, eeprom, pins, muses, lcdRow1, acie, ghost, budget>>

\* case DIR_CCW: if (volume > -447) { if (isMuted) unMute(); ... (lines 176-182)
volumeUpdate_ccw ==
    /\ At("volumeUpdate_ccw")
    /\ Continue(IF CanDecrease(volume)
                THEN (IF isMuted # 0 THEN UnMuteOps ELSE <<>>)
                     \o <<"volumeUpdate_dec", "setVolume">>
                ELSE <<>>)
    /\ UNCHANGED <<core, ghost, budget>>

\* volume = volume - 1 (line 183)
volumeUpdate_dec ==
    /\ At("volumeUpdate_dec")
    /\ volume' = volume - 1
    /\ Continue(<<>>)
    /\ UNCHANGED <<backlight, source, oldsource, oldtoggle, isMuted, state,
                   sinceButton, eeprom, pins, muses, lcdRow1, acie, ghost, budget>>

\* switch (state) in buttonPressed (lines 211-213)
buttonPressed_switch ==
    /\ At("buttonPressed_switch")
    /\ Continue(IF state = STATE_RUN THEN <<"buttonPressed_assign">> ELSE <<>>)
    /\ UNCHANGED <<core, ghost, budget>>

\* state = STATE_IO; milOnButton = millis() (lines 214-215)
buttonPressed_assign ==
    /\ At("buttonPressed_assign")
    /\ state' = STATE_IO
    /\ sinceButton' = 0
    /\ Continue(<<>>)
    /\ UNCHANGED <<volume, backlight, source, oldsource, oldtoggle, isMuted,
                   eeprom, pins, muses, lcdRow1, acie, ghost, budget>>

\* sourceUpdate_cw without the refresh of milOnButton
sourceUpdate_cw_NoRefresh ==
    /\ At("sourceUpdate_cw")
    /\ oldsource' = source
    /\ sinceButton' = sinceButton
    /\ source' = NextSource(source)
    /\ Continue(<<>>)
    /\ UNCHANGED <<volume, backlight, oldtoggle, isMuted, state, eeprom, pins,
                   muses, lcdRow1, acie, ghost, budget>>

\* case DIR_CW of sourceUpdate (lines 229-239)
sourceUpdate_cw ==
    /\ At("sourceUpdate_cw")
    /\ oldsource' = source
    /\ sinceButton' = 0
    /\ source' = NextSource(source)
    /\ Continue(<<>>)
    /\ UNCHANGED <<volume, backlight, oldtoggle, isMuted, state, eeprom, pins,
                   muses, lcdRow1, acie, ghost, budget>>

\* case DIR_CCW of sourceUpdate (lines 242-252)
sourceUpdate_ccw ==
    /\ At("sourceUpdate_ccw")
    /\ oldsource' = source
    /\ sinceButton' = 0
    /\ source' = PrevSource(source)
    /\ Continue(<<>>)
    /\ UNCHANGED <<volume, backlight, oldtoggle, isMuted, state, eeprom, pins,
                   muses, lcdRow1, acie, ghost, budget>>

\* RotaryUpdate_timeout leaving STATE_IO as soon as the time is reached
RotaryUpdate_timeout_AtLeast ==
    /\ At("RotaryUpdate_timeout")
    /\ state' = IF sinceButton >= TIME_EXITSELECT * 1000 THEN STATE_RUN ELSE state
    /\ Continue(<<>>)
    /\ UNCHANGED <<volume, backlight, source, oldsource, oldtoggle, isMuted,
                   sinceButton, eeprom, pins, muses, lcdRow1, acie, ghost, budget>>

\* if ((millis() - milOnButton) > TIME_EXITSELECT * 1000) state = STATE_RUN
\* (lines 145-148)
RotaryUpdate_timeout ==
    /\ At("RotaryUpdate_timeout")
    /\ state' = IF sinceButton > TIME_EXITSELECT * 1000 THEN STATE_RUN ELSE state
    /\ Continue(<<>>)
    /\ UNCHANGED <<volume, backlight, source, oldsource, oldtoggle, isMuted,
                   sinceButton, eeprom, pins, muses, lcdRow1, acie, ghost, budget>>

\* default: break (lines 150-151)
RotaryUpdate_default ==
    /\ At("RotaryUpdate_default")
    /\ Continue(<<>>)
    /\ UNCHANGED <<core, ghost, budget>>

(* ---------------- time ---------------- *)
\* the values of millis() - milOnButton the model tells apart
TimePoints == {100, 4900, 5000, 5001}

\* millis() advances; the difference is read only in STATE_IO (line 145) and
\* is zeroed on the way into it (line 215)
Tick ==
    /\ Idle
    /\ state = STATE_IO
    /\ \E t \in TimePoints : t > sinceButton /\ sinceButton' = t
    /\ UNCHANGED <<volume, backlight, source, oldsource, oldtoggle, isMuted,
                   state, eeprom, pins, muses, lcdRow1, acie, pc, cur,
                   afterBoot, beforeToggle, ghost, budget>>

(* ---------------- power loss ---------------- *)
\* ISR without its call of mute()
ISR_NoMute ==
    /\ acie
    /\ ~powerLost
    /\ eeprom' = [eeprom EXCEPT ![EEPROM_VOLUME] = ToByte(-volume),
                                ![EEPROM_SOURCE] = source]
    /\ backlight' = STANDBY
    /\ state' = STATE_OFF
    /\ powerLost' = TRUE
    /\ isrVolume' = volume
    /\ isrSource' = source
    /\ UNCHANGED <<volume, source, oldsource, oldtoggle, isMuted, sinceButton,
                   pins, muses, lcdRow1, acie, pc, cur, afterBoot, boots,
                   beforeToggle, budget>>

\* ISR(ANALOG_COMP_vect) with saveIOValues() and mute() (lines 112-126, 408-414);
\* interrupts are off while it runs, so it is one step
ISR ==
    /\ acie
    /\ ~powerLost
    /\ eeprom' = [eeprom EXCEPT ![EEPROM_VOLUME] = ToByte(-volume),
                                ![EEPROM_SOURCE] = source]
    /\ backlight' = STANDBY
    /\ isMuted' = 1
    /\ muses' = [cmd |-> "mute", level |-> 0]
    /\ lcdRow1' = "Muted "
    /\ state' = STATE_OFF
    /\ powerLost' = TRUE
    /\ isrVolume' = volume
    /\ isrSource' = source
    /\ UNCHANGED <<volume, source, oldsource, oldtoggle, sinceButton, pins,
                   acie, pc, cur, afterBoot, boots, beforeToggle, budget>>

\* the supply is gone and comes back: the globals are initialised again
\* (lines 48-66), the EEPROM keeps its contents
Reboot ==
    /\ powerLost
    /\ boots < MaxBoots
    /\ volume' = 0
    /\ backlight' = 0
    /\ source' = 1
    /\ oldsource' = 1
    /\ oldtoggle' = 0
    /\ isMuted' = 0
    /\ state' = 0
    /\ sinceButton' = 0
    /\ pins' = [p \in 1..4 |-> LOW]
    /\ muses' = [cmd |-> "mute", level |-> 0]
    /\ lcdRow1' = "      "
    /\ acie' = FALSE
    /\ pc' = <<"setup">>
    /\ cur' = [ev |-> SetupEvent, pre |-> IdleCur.pre]
    /\ powerLost' = FALSE
    /\ afterBoot' = FALSE
    /\ boots' = boots + 1
    /\ beforeToggle' = IdleCur.pre
    /\ UNCHANGED <<eeprom, isrVolume, isrSource, budget>>

(* ---------------- the environment ---------------- *)
Toggles == {0, 1}

\* recognised (address, command) pairs, an unknown command on each known
\* address, and a frame for another device
Codes == {<<16, 1>>, <<16, 3>>, <<16, 7>>, <<16, 8>>, <<16, 13>>, <<16, 16>>,
          <<16, 17>>, <<16, 59>>, <<16, 2>>, <<20, 53>>, <<20, 1>>, <<5, 16>>}

\* codes that act on volume, mute and backlight only
VolumeCodes == {<<16, 13>>, <<16, 16>>, <<16, 17>>, <<16, 59>>}

Dirs == {DIR_NONE, DIR_CW, DIR_CCW}

\* what the encoder can report in one cycle: a step, or no step with or
\* without a completed button press
Reports == {<<d, p>> \in Dirs \X BOOLEAN : d # DIR_NONE => ~p}

\* "up" requests stop being offered at this level
VolTop == VolMin + MaxVolSteps

Step ==
    \/ setup \/ setup_musesMute \/ setup_isMuted
    \/ setVolume \/ setIO_low \/ setIO_high
    \/ unMute_backlight \/ unMute_flag \/ unMute_setVolume \/ unMute_lcd
    \/ mute_flag \/ mute_muses \/ mute_lcd
    \/ RC5Update_volUp \/ RC5Update_volDown
    \/ RC5Update_blOff \/ RC5Update_blOn \/ RC5Update_oldtoggle
    \/ volumeUpdate_cw \/ volumeUpdate_inc
    \/ volumeUpdate_ccw \/ volumeUpdate_dec

SourceStep ==
    \/ RC5Update_select
    \/ buttonPressed_switch \/ buttonPressed_assign
    \/ sourceUpdate_cw \/ sourceUpdate_ccw
    \/ RotaryUpdate_timeout \/ RotaryUpdate_default
    \/ Tick

\* one power cycle from a fresh EEPROM, every input, volume near its floor
Next ==
    \/ Step
    \/ SourceStep
    \/ ISR
    \/ \E t \in Toggles, ac \in Codes :
          /\ ac = <<16, 16>> => volume < VolTop
          /\ RC5Update(t, ac[1], ac[2], powerLost)
    \/ \E r \in Reports :
          /\ (r[1] = DIR_CW /\ state = STATE_RUN) => volume < VolTop
          /\ RotaryUpdate(r[1], r[2], powerLost)

Spec == Init /\ [][Next]_vars

\* one power cycle, the whole volume range, the inputs that act on volume
NextVolume ==
    \/ Step
    \/ ISR
    \/ RotaryUpdate_default
    \/ \E t \in Toggles, ac \in VolumeCodes : RC5Update(t, ac[1], ac[2], powerLost)
    \/ \E d \in {DIR_CW, DIR_CCW} : RotaryUpdate(d, FALSE, powerLost)

SpecVolume == Init /\ [][NextVolume]_vars

\* several power cycles, every input, a bounded number of input events
NextReboot ==
    \/ Step
    \/ SourceStep
    \/ ISR
    \/ Reboot
    \/ \E t \in Toggles, ac \in Codes : RC5Update(t, ac[1], ac[2], TRUE)
    \/ \E r \in Reports : RotaryUpdate(r[1], r[2], TRUE)

SpecReboot == InitReboot /\ [][NextReboot]_vars


(* ======================= the claims ======================= *)
\* the step in which the power-loss interrupt runs
IsrStep == ~powerLost /\ powerLost'

\* the step in which the handler of the input event in cur returns
Returns == pc # <<>> /\ pc' = <<>>

\* the interrupt has not run while the handler in cur was in progress
Unpreempted == powerLost' = cur.pre.powerLost

\* C1: settings survive power loss: when setup() has returned in a power
\* cycle that follows a run of the power-loss handler, volume and source are
\* what they were when the handler ran.
C1_SettingsSurvivePowerLoss ==
    (afterBoot /\ boots > 1 /\ ~powerLost)
        => (volume = isrVolume /\ source = isrSource)

\* C2: once the power-loss handler has run with a volume in [-447, 0], the
\* volume slot of the EEPROM holds abs(volume) and the source slot holds source.
C2_HandlerStoresMagnitude ==
    (powerLost /\ isrVolume \in VolMin..VolMax)
        => /\ eeprom[EEPROM_VOLUME] = Abs(isrVolume)
           /\ eeprom[EEPROM_SOURCE] = isrSource

\* C3: whatever statement the power-loss handler preempts, when it returns
\* isMuted is 1, backlight is STANDBY, state is STATE_OFF, and volume and
\* source are what they were when it was entered.
C3_HandlerPostcondition ==
    [][IsrStep => /\ isMuted' = 1
                  /\ backlight' = STANDBY
                  /\ state' = STATE_OFF
                  /\ volume' = volume
                  /\ source' = source]_vars

\* C3 witness: the handler has preempted RC5Update in mid-handler
C3_Witness ==
    /\ powerLost
    /\ cur.ev.kind = "rc5"
    /\ ~cur.pre.powerLost
    /\ Len(pc) > 1
    /\ isMuted = 1 /\ backlight = STANDBY /\ state = STATE_OFF

\* C4: STATE_OFF is terminal: no step of the power cycle takes state from
\* STATE_OFF to another value.
C4_PoweredDownTerminal == [][state = STATE_OFF => state' = STATE_OFF]_vars

\* C5: no step of the handling of a rotary event, button press or remote
\* frame that the control cycle takes up after the power-loss handler has
\* run changes volume or source.
C5_NoMutationAfterPowerLoss ==
    [][(cur.ev.kind \in {"rc5", "rotary"} /\ cur.pre.powerLost)
          => (volume' = volume /\ source' = source)]_vars

\* C6: in every reachable state volume lies in [-447, 0].
C6_VolumeInRange == volume \in VolMin..VolMax

\* C6 witness: a remote volume-up request has been handled at volume 0
C6_Witness ==
    /\ pc = <<"RC5Update_oldtoggle">>
    /\ cur.ev.address = AddrPreamp /\ cur.ev.command = 16
    /\ cur.pre.volume = VolMax
    /\ volume = VolMax

\* an increase request at volume 0 or a decrease request at volume -447,
\* from the encoder in STATE_RUN or from the remote control
ClampedRequest ==
    \/ /\ cur.ev.kind = "rc5"
       /\ cur.ev.address = AddrPreamp
       /\ \/ cur.ev.command = 16 /\ cur.pre.volume = VolMax
          \/ cur.ev.command = 17 /\ cur.pre.volume = VolMin
    \/ /\ cur.ev.kind = "rotary"
       /\ cur.pre.state = STATE_RUN
       /\ \/ cur.ev.dir = DIR_CW /\ cur.pre.volume = VolMax
          \/ cur.ev.dir = DIR_CCW /\ cur.pre.volume = VolMin

\* C7: when the handling of a clamped request returns, in a power cycle in
\* which the power-loss handler has not run, volume, isMuted and backlight
\* are what they were when the request arrived.
C7_ClampingNoOp ==
    [][(ClampedRequest /\ Returns /\ ~powerLost')
          => /\ volume' = cur.pre.volume
             /\ isMuted' = cur.pre.isMuted
             /\ backlight' = cur.pre.backlight]_vars

\* C8: source stays in {1,2,3,4}; from the current source four clockwise
\* steps lead back to it, and a counter-clockwise step undoes a clockwise
\* step and the other way round.
C8_SourceCycle ==
    /\ source \in 1..4
    /\ NextSource(NextSource(NextSource(NextSource(source)))) = source
    /\ PrevSource(NextSource(source)) = source
    /\ NextSource(PrevSource(source)) = source

\* C8 witness: a clockwise step in STATE_IO has wrapped from source 4 to 1
C8_Witness ==
    /\ cur.ev.kind = "rotary" /\ cur.ev.dir = DIR_CW
    /\ cur.pre.state = STATE_IO
    /\ cur.pre.source = 4
    /\ source = 1
    /\ pc = <<"RotaryUpdate_timeout">>

\* the source lines driven HIGH
ActiveLines == {p \in 1..4 : pins[p] = HIGH}

\* C9: at most one source line is HIGH in every state, and between handlers
\* (setup() and every source change having returned) the HIGH line is
\* exactly that of source.
C9_OneSourceLine ==
    /\ Cardinality(ActiveLines) <= 1
    /\ Idle => ActiveLines = {source}

\* C9 witness: the remote control has selected the source already active
C9_Witness ==
    /\ Idle
    /\ oldsource = source
    /\ source = 3
    /\ ActiveLines = {3}

C11_ToggleMuteInvolution ==
    [][(/\ IsToggleMute(cur.ev, cur.pre.oldtoggle)
        /\ Returns
        /\ beforeToggle # IdleCur.pre
        /\ beforeToggle.backlight = ACTIVE
        /\ powerLost' = beforeToggle.powerLost)
          => /\ isMuted' = beforeToggle.isMuted
             /\ lcdRow1' = beforeToggle.lcdRow1
             /\ (muses'.cmd = "mute") = (beforeToggle.muses.cmd = "mute")
             /\ volume' = beforeToggle.volume
             /\ backlight' = beforeToggle.backlight]_vars

\* C11 witness: the second toggleMute() in a row, the first of which started
\* unmuted with the backlight on, is about to return
C11_Witness ==
    /\ pc = <<"RC5Update_oldtoggle">>
    /\ IsToggleMute(cur.ev, cur.pre.oldtoggle)
    /\ beforeToggle # IdleCur.pre
    /\ beforeToggle.backlight = ACTIVE
    /\ beforeToggle.isMuted = 0
    /\ ~powerLost
    /\ isMuted = 0 /\ lcdRow1 = "      " /\ muses.cmd = "gain"


\* the test that ends the control cycle in STATE_IO is the statement to run
AtTimeoutTest == At("RotaryUpdate_timeout")

\* C12 as claimed: in a power cycle without power loss, a step taken in
\* STATE_IO changes state to STATE_RUN if and only if it is the timeout test
\* of the control cycle and at least 5000 ms have passed since the later of
\* the button press and the last rotation.
C12_TimeoutAtLeastFiveSeconds ==
    [][(state = STATE_IO /\ ~powerLost')
          => ((state' = STATE_RUN)
                <=> (AtTimeoutTest /\ sinceButton >= TIME_EXITSELECT * 1000))]_vars

\* C12 as amended: the same with more than 5000 ms; so a rotation 4900 ms
\* after the button press leaves the state STATE_IO 100 ms later, and with
\* no rotation the state is still STATE_IO at 5000 ms exactly and STATE_RUN
\* after the first control cycle run later than that.
C12_TimeoutAfterFiveSeconds ==
    [][(state = STATE_IO /\ ~powerLost')
          => ((state' = STATE_RUN)
                <=> (AtTimeoutTest /\ sinceButton > TIME_EXITSELECT * 1000))]_vars

\* C12 witness: the timeout test is about to run exactly 5000 ms after the
\* last activity, in STATE_IO and without power loss
C12_Witness ==
    /\ pc = <<"RotaryUpdate_timeout">>
    /\ state = STATE_IO
    /\ sinceButton = TIME_EXITSELECT * 1000
    /\ ~powerLost


\* what unMute() and mute() leave in backlight and isMuted (lines 395-414)
AfterUnMute(r) == [r EXCEPT !.backlight = IF r.backlight = STANDBY THEN ACTIVE ELSE @,
                            !.isMuted = 0]
AfterMute(r) == [r EXCEPT !.isMuted = 1]

\* volume, source, isMuted and backlight after RC5Update has run to its end
\* on the frame ev from the values in pre (lines 269-392); state is not an
\* argument
Rc5Effect(pre, ev) ==
    LET new == ev.toggle # pre.oldtoggle
        r == [volume |-> pre.volume, source |-> pre.source,
              isMuted |-> pre.isMuted, backlight |-> pre.backlight]
        heard == IF pre.isMuted # 0 THEN AfterUnMute(r) ELSE r
    IN  IF ev.address = AddrPreamp
        THEN CASE ev.command \in {1, 3, 7, 8} /\ new ->
                    [(IF pre.backlight = STANDBY THEN AfterUnMute(r) ELSE r)
                        EXCEPT !.source = SelTarget(ev.address, ev.command)]
               [] ev.command = 13 /\ new ->
                    IF pre.isMuted # 0 THEN AfterUnMute(r) ELSE AfterMute(r)
               [] ev.command = 16 ->
                    [heard EXCEPT !.volume = IF CanIncrease(@) THEN @ + 1 ELSE @]
               [] ev.command = 17 ->
                    [heard EXCEPT !.volume = IF CanDecrease(@) THEN @ - 1 ELSE @]
               [] ev.command = 59 /\ new ->
                    IF pre.backlight # STANDBY
                    THEN AfterMute([r EXCEPT !.backlight = STANDBY])
                    ELSE AfterUnMute(r)
               [] OTHER -> r
        ELSE IF ev.address = AddrCD /\ new /\ ev.command = 53
        THEN [r EXCEPT !.source = 3]
        ELSE r

\* C13: remote commands bypass the mode: no statement of RC5Update changes
\* state, and when RC5Update returns without the power-loss handler having
\* run during it, volume, source, isMuted and backlight are a function of
\* their values before the frame and of the frame alone, the same in
\* STATE_RUN and STATE_IO.
C13_RemoteBypassesMode ==
    [][(cur.ev.kind = "rc5" /\ ~IsrStep)
          => /\ state' = state
             /\ (Returns /\ Unpreempted)
                  => /\ state' = cur.pre.state
                     /\ [volume |-> volume', source |-> source',
                         isMuted |-> isMuted', backlight |-> backlight']
                          = Rc5Effect(cur.pre, cur.ev)]_vars

\* C13 witness: a volume-up frame received in STATE_IO has raised the volume
\* and is about to return, the state still STATE_IO
C13_Witness ==
    /\ pc = <<"RC5Update_oldtoggle">>
    /\ cur.ev.kind = "rc5"
    /\ cur.ev.command = 16
    /\ cur.pre.state = STATE_IO
    /\ state = STATE_IO
    /\ ~powerLost
    /\ volume = cur.pre.volume + 1


\* C14: toggle-bit de-duplication: when RC5Update returns from a toggle-mute
\* frame (address 0x10, command 13) in a power cycle without power loss,
\* isMuted has changed if and only if the frame is the first event handled
\* since boot or its toggle bit differs from that of the frame decoded
\* before it.
C14_ToggleMuteOnNewPress ==
    [][(/\ cur.ev.kind = "rc5"
        /\ cur.ev.address = AddrPreamp
        /\ cur.ev.command = 13
        /\ Returns
        /\ ~powerLost')
          => ((isMuted' # cur.pre.isMuted)
                <=> (cur.pre.afterBoot \/ cur.ev.toggle # cur.pre.oldtoggle))]_vars


\* C15: first-use boot: the statements of setup() find the first-use flag
\* non-zero and then write 1 to the source slot, 0 to the flag and leave
\* source = 1, or find it 0 and then write nothing to the EEPROM and leave
\* source = the source slot; no later statement of setup() writes the EEPROM
\* or source, so this is what holds when setup() returns.
C15_FirstUseBoot ==
    [][(cur.ev.kind = "setup" /\ ~IsrStep /\ boots' = boots)
          => IF At("setup")
             THEN IF eeprom[EEPROM_FIRST_USE] # 0
                  THEN /\ eeprom' = [eeprom EXCEPT ![EEPROM_SOURCE] = 1,
                                                   ![EEPROM_FIRST_USE] = 0]
                       /\ source' = 1
                  ELSE /\ eeprom' = eeprom
                       /\ source' = eeprom[EEPROM_SOURCE]
             ELSE eeprom' = eeprom /\ source' = source]_vars

\* C15 witness: the second boot has completed on a cleared flag with the
\* stored source, which is not source 1
C15_Witness ==
    /\ afterBoot
    /\ boots = 2
    /\ eeprom[EEPROM_FIRST_USE] = 0
    /\ source = eeprom[EEPROM_SOURCE]
    /\ source # 1


\* C16: backlight off implies muted: when a handler of the control cycle
\* that began before any power loss returns (no mute, unMute or backlight
\* operation is then in progress), backlight = STANDBY implies isMuted # 0,
\* also when the power-loss handler has preempted it in the middle of unMute.
C16_BacklightOffImpliesMuted ==
    [][(/\ Returns
        /\ cur.ev.kind \in {"rc5", "rotary"}
        /\ ~cur.pre.powerLost
        /\ backlight' = STANDBY)
          => isMuted' # 0]_vars


\* C17: muted means silent: when a handler of the control cycle that began
\* before any power loss returns with isMuted # 0, the last command sent to
\* the MUSES chip is mute, no gain having been pushed after it, however the
\* power-loss handler interleaved with a volume change in progress.
C17_MutedMeansSilent ==
    [][(/\ Returns
        /\ cur.ev.kind \in {"rc5", "rotary"}
        /\ ~cur.pre.powerLost
        /\ isMuted' # 0)
          => muses'.cmd = "mute"]_vars


\* C18: rotary routing by state: when RotaryUpdate returns from a rotation
\* without the power-loss handler having run during it, volume has changed
\* only if the state was STATE_RUN and source only if it was STATE_IO; a
\* rotation in STATE_RUN leaves source and state, a rotation in STATE_IO
\* leaves volume, isMuted and state; and no statement run for a rotation or
\* a button press in STATE_OFF changes any variable of the program.
C18_RotaryRouting ==
    [][(cur.ev.kind = "rotary")
          => /\ (Returns /\ Unpreempted /\ cur.ev.dir # DIR_NONE)
                  => /\ volume' # cur.pre.volume => cur.pre.state = STATE_RUN
                     /\ source' # cur.pre.source => cur.pre.state = STATE_IO
                     /\ cur.pre.state = STATE_RUN
                          => source' = cur.pre.source /\ state' = STATE_RUN
                     /\ cur.pre.state = STATE_IO
                          => /\ volume' = cur.pre.volume
                             /\ isMuted' = cur.pre.isMuted
                             /\ state' = STATE_IO
             /\ cur.pre.state = STATE_OFF => core' = core]_vars

\* C18 witness: a rotation in STATE_IO has changed the source and the
\* timeout test that ends the control cycle is about to run with the time
\* just refreshed
C18_Witness ==
    /\ pc = <<"RotaryUpdate_timeout">>
    /\ cur.ev.kind = "rotary"
    /\ cur.ev.dir = DIR_CW
    /\ cur.pre.state = STATE_IO
    /\ state = STATE_IO
    /\ source # cur.pre.source
    /\ sinceButton = 0
    /\ ~powerLost


\* a frame RC5Update has no case for (lines 271-390)
Unrecognized(ev) ==
    /\ ev.kind = "rc5"
    /\ \/ ev.address \notin {AddrPreamp, AddrCD}
       \/ ev.address = AddrPreamp /\ ev.command \notin {1, 3, 7, 8, 13, 16, 17, 59}
       \/ ev.address = AddrCD /\ ev.command # 53

\* C19: unrecognized remote frames are ignored: no statement RC5Update runs
\* for a frame whose address is neither 0x10 nor 0x14, or whose command is
\* not one its address has a case for, changes volume, source, isMuted,
\* backlight, state, the source lines or the EEPROM; when it returns,
\* oldtoggle is the toggle bit of the frame.
C19_UnrecognizedIgnored ==
    [][(Unrecognized(cur.ev) /\ ~IsrStep)
          => /\ UNCHANGED <<volume, source, isMuted, backlight, state, pins, eeprom>>
             /\ Returns => oldtoggle' = cur.ev.toggle]_vars

\* C19 witness: a frame with an unknown address and a new toggle bit is
\* about to return, before any power loss
C19_Witness ==
    /\ pc = <<"RC5Update_oldtoggle">>
    /\ Unrecognized(cur.ev)
    /\ cur.ev.address \notin {AddrPreamp, AddrCD}
    /\ cur.ev.toggle # oldtoggle
    /\ ~powerLost


\* C20: the remote backlight command only toggles the backlight: when
\* RC5Update returns from a frame with address 0x10 and command 59 in a
\* power cycle without power loss, source, volume and isMuted are what they
\* were before the frame.
C20_BacklightCommandOnly ==
    [][(/\ cur.ev.kind = "rc5"
        /\ cur.ev.address = AddrPreamp
        /\ cur.ev.command = 59
        /\ Returns
        /\ ~powerLost')
          => /\ source' = cur.pre.source
             /\ volume' = cur.pre.volume
             /\ isMuted' = cur.pre.isMuted]_vars

=============================================================================
